---- MODULE Spec2Model ----
(***************************************************************************)
(* A model of src/pyatl/typing/dotenvtypes.py: binding "KEY=VALUE" text    *)
(* onto a typed configuration class.                                       *)
(*                                                                         *)
(* Python strings are modelled as sequences of one-character strings, so   *)
(* that split, join and lower are computed character by character.         *)
(* Python values are tagged records [t |-> <type>, v |-> <payload>]; a     *)
(* raised exception inside the caster is the tagged value                  *)
(* [t |-> "raise", v |-> <exception class>].                               *)
(*                                                                         *)
(* The characters that occur in the modelled inputs are                    *)
(*   A a B b Z x 0 1 = , and the newline;                                  *)
(* int() and float() are modelled on that alphabet (no sign, whitespace,   *)
(* underscore, point or exponent occurs in it).                            *)
(* The typing module is modelled as in Python 3.6, the version whose       *)
(* t.List[int].__origin__ is t.List, as the keys of ConfigBinder.kinds     *)
(* require.                                                                *)
(***************************************************************************)
EXTENDS Integers, Sequences, FiniteSets, TLC

VARIABLES
    pc,         \* position of the bind call: idle, hints, seed, loop, bind, done, raised
    entry,      \* public operation called: "bind_to" or "bind_environ_to"
    environ,    \* bind_environ_to's mapping, as its items() in iteration order
    c,          \* the target class: its annotated fields in declaration order
    raw,        \* the raw text
    settings,   \* load_type_hints_and_defaults(c)
    config,     \* parse_config's in-progress mapping
    lines,      \* raw.split('\n')
    idx,        \* index in lines of the line being (or about to be) processed
    err,        \* the exception that left the call, NoErr if none
    created,    \* whether c() has been instantiated
    instance,   \* the attributes assigned onto the instance by setattr
    returned,   \* whether an instance was returned to the caller
    segs,       \* caster run: the comma-free segments the input is joined from
    as_,        \* caster run: the type descriptor
    out,        \* caster run: result of ConfigBinder.cast
    cpc         \* caster run: "ready" or "cast"

vars == <<pc, entry, environ, c, raw, settings, config, lines, idx, err,
          created, instance, returned, segs, as_, out, cpc>>

bindvars == <<pc, entry, environ, c, raw, settings, config, lines, idx, err,
              created, instance, returned>>

castvars == <<segs, as_, out, cpc>>

(***************************************************************************)
(* Bounds of the model.                                                    *)
(***************************************************************************)
MaxLines == 2
MaxSegs == 2

(***************************************************************************)
(* Strings.                                                                *)
(***************************************************************************)
NL == "\n"

LowerChar(ch) ==
    CASE ch = "A" -> "a"
      [] ch = "B" -> "b"
      [] ch = "Z" -> "z"
      [] OTHER -> ch

\* str.lower
lower(s) == [i \in 1..Len(s) |-> LowerChar(s[i])]

\* str.find, 1-based; 0 when absent
find(s, sep) ==
    IF \E i \in 1..Len(s) : s[i] = sep
    THEN CHOOSE i \in 1..Len(s) : s[i] = sep /\ \A j \in 1..(i - 1) : s[j] # sep
    ELSE 0

\* str.split(sep)
RECURSIVE split(_, _)
split(s, sep) ==
    LET i == find(s, sep)
    IN  IF i = 0 THEN <<s>>
        ELSE <<SubSeq(s, 1, i - 1)>> \o split(SubSeq(s, i + 1, Len(s)), sep)

\* str.split(sep, 1)
split1(s, sep) ==
    LET i == find(s, sep)
    IN  IF i = 0 THEN <<s>>
        ELSE <<SubSeq(s, 1, i - 1), SubSeq(s, i + 1, Len(s))>>

\* sep.join(parts)
RECURSIVE join(_, _)
join(parts, sep) ==
    IF Len(parts) = 0 THEN <<>>
    ELSE IF Len(parts) = 1 THEN parts[1]
    ELSE parts[1] \o <<sep>> \o join(Tail(parts), sep)

(***************************************************************************)
(* Values and type descriptors.                                            *)
(***************************************************************************)
NoneV == [t |-> "None", v |-> 0]
IntV(n) == [t |-> "int", v |-> n]
FloatV(n) == [t |-> "float", v |-> n]
StrV(s) == [t |-> "str", v |-> s]
BoolV(b) == [t |-> "bool", v |-> b]
ListV(s) == [t |-> "list", v |-> s]
SetV(s) == [t |-> "set", v |-> s]
DictV(f) == [t |-> "dict", v |-> f]
Raise(e) == [t |-> "raise", v |-> e]

IsRaise(x) == x.t = "raise"

\* list, set and dict instances are unhashable
Hashable(x) == x.t \notin {"list", "set", "dict"}

\* A type: as_.__origin__ (the type itself when it is not parameterized)
\* and as_.__args__ (empty when absent or None).
Type(o, a) == [origin |-> o, args |-> a]
StrT == Type("str", <<>>)
IntT == Type("int", <<>>)
FloatT == Type("float", <<>>)
BoolT == Type("bool", <<>>)
ListT == Type("List", <<>>)
SetT == Type("Set", <<>>)
DictT == Type("Dict", <<>>)
ListOf(e) == Type("List", <<e>>)
SetOf(e) == Type("Set", <<e>>)
DictOf(k, w) == Type("Dict", <<k, w>>)
OptionalOf(e) == Type("Union", <<e, Type("NoneType", <<>>)>>)

(***************************************************************************)
(* ConfigBinder.                                                           *)
(***************************************************************************)
Digit(ch) == CASE ch = "0" -> 0 [] ch = "1" -> 1 [] OTHER -> -1

IsDigits(s) == Len(s) > 0 /\ \A i \in 1..Len(s) : Digit(s[i]) >= 0

RECURSIVE Decimal(_)
Decimal(s) ==
    IF Len(s) = 0 THEN 0
    ELSE 10 * Decimal(SubSeq(s, 1, Len(s) - 1)) + Digit(s[Len(s)])

\* self.kinds
kinds == {"str", "float", "int", "List", "Set", "Dict"}

as_int(in_) == IF IsDigits(in_) THEN IntV(Decimal(in_)) ELSE Raise("ValueError")

as_float(in_) == IF IsDigits(in_) THEN FloatV(Decimal(in_)) ELSE Raise("ValueError")

as_str(in_) == StrV(in_)

RECURSIVE cast(_, _)

\* The first exception raised while the items are produced in order.
FirstRaise(items) ==
    items[CHOOSE i \in 1..Len(items) :
            IsRaise(items[i]) /\ \A j \in 1..(i - 1) : ~IsRaise(items[j])]

\* as_list that drops empty segments, as in_.split() without a separator does
as_list_skip_empty(in_, sub) ==
    LET values == SelectSeq(split(in_, ","), LAMBDA w : Len(w) > 0)
        items == [i \in 1..Len(values) |-> cast(values[i], sub)]
    IN  IF \E i \in 1..Len(items) : IsRaise(items[i])
        THEN FirstRaise(items)
        ELSE ListV(items)

as_list(in_, sub) ==
    LET values == split(in_, ",")
        items == [i \in 1..Len(values) |-> cast(values[i], sub)]
    IN  IF \E i \in 1..Len(items) : IsRaise(items[i])
        THEN FirstRaise(items)
        ELSE ListV(items)

\* set(...) hashes each element as the generator yields it
as_set(in_, sub) ==
    LET values == split(in_, ",")
        items == [i \in 1..Len(values) |->
                    LET x == cast(values[i], sub)
                    IN  IF IsRaise(x) \/ Hashable(x) THEN x ELSE Raise("TypeError")]
    IN  IF \E i \in 1..Len(items) : IsRaise(items[i])
        THEN FirstRaise(items)
        ELSE SetV({items[i] : i \in 1..Len(items)})

\* dct[key] = value
SetItem(dct, key, value) ==
    [k \in (DOMAIN dct) \cup {key} |-> IF k = key THEN value ELSE dct[k]]

\* as_dict_pair that keeps the first value of a key, as dct.setdefault does
as_dict_pair_first_wins(dct, pair, kt, vt) ==
    LET kv == split(pair, "=")
    IN  IF Len(kv) # 2 THEN Raise("ValueError")
        ELSE LET value == cast(kv[2], vt)
                 key == cast(kv[1], kt)
             IN  IF IsRaise(value) THEN value
                 ELSE IF IsRaise(key) THEN key
                 ELSE IF ~Hashable(key) THEN Raise("TypeError")
                 ELSE IF key \in DOMAIN dct THEN DictV(dct)
                 ELSE DictV(SetItem(dct, key, value))

\* One iteration of as_dict's loop: the dict after it, or the exception raised.
\* The assignment evaluates its right-hand side, then the key, then hashes it.
as_dict_pair(dct, pair, kt, vt) ==
    LET kv == split(pair, "=")
    IN  IF Len(kv) # 2 THEN Raise("ValueError")
        ELSE LET value == cast(kv[2], vt)
                 key == cast(kv[1], kt)
             IN  IF IsRaise(value) THEN value
                 ELSE IF IsRaise(key) THEN key
                 ELSE IF ~Hashable(key) THEN Raise("TypeError")
                 ELSE DictV(SetItem(dct, key, value))

RECURSIVE as_dict_loop(_, _, _, _)
as_dict_loop(dct, pairs, kt, vt) ==
    IF Len(pairs) = 0 THEN DictV(dct)
    ELSE LET d2 == as_dict_pair(dct, pairs[1], kt, vt)
         IN  IF IsRaise(d2) THEN d2
             ELSE as_dict_loop(d2.v, Tail(pairs), kt, vt)

as_dict(in_, kt, vt) == as_dict_loop(<<>>, split(in_, ","), kt, vt)

\* self.kinds[as_](in_, *subtypes); a missing parameter defaults to str
call_kind(origin, in_, subtypes) ==
    LET arg(i) == IF Len(subtypes) >= i THEN subtypes[i] ELSE StrT
    IN  CASE origin \notin kinds -> Raise("KeyError")
          [] origin = "str" -> IF Len(subtypes) > 0 THEN Raise("TypeError") ELSE as_str(in_)
          [] origin = "int" -> IF Len(subtypes) > 0 THEN Raise("TypeError") ELSE as_int(in_)
          [] origin = "float" -> IF Len(subtypes) > 0 THEN Raise("TypeError") ELSE as_float(in_)
          [] origin = "List" -> IF Len(subtypes) > 1 THEN Raise("TypeError") ELSE as_list(in_, arg(1))
          [] origin = "Set" -> IF Len(subtypes) > 1 THEN Raise("TypeError") ELSE as_set(in_, arg(1))
          [] origin = "Dict" -> IF Len(subtypes) > 2 THEN Raise("TypeError") ELSE as_dict(in_, arg(1), arg(2))

cast(in_, typ) == call_kind(typ.origin, in_, typ.args)

(***************************************************************************)
(* Classes: the annotated fields in declaration order, each with the       *)
(* class attribute of the same name as its default (NoneV when the class   *)
(* has no such attribute).                                                 *)
(***************************************************************************)
Field(n, h, d) == [name |-> n, hint |-> h, default |-> d]

\* class Plain:      A: int = 7;  B: str
Plain == <<Field(<<"A">>, IntT, IntV(7)), Field(<<"B">>, StrT, NoneV)>>

\* class Colliding:  A: int = 7;  a: str
Colliding == <<Field(<<"A">>, IntT, IntV(7)), Field(<<"a">>, StrT, NoneV)>>

\* class Mixed:      A: t.Dict[str, int];  B: bool = True
Mixed == <<Field(<<"A">>, DictOf(StrT, IntT), NoneV), Field(<<"B">>, BoolT, BoolV(TRUE))>>

\* class Empty:      pass
Empty == <<>>

Classes == {Plain, Colliding, Mixed, Empty}

(***************************************************************************)
(* Inputs of a bind call.                                                  *)
(***************************************************************************)
LineKeys == {<<"A">>, <<"a">>, <<"B">>, <<"b">>, <<"Z">>}

LineValues == {<<"1">>, <<"0", "1">>, <<"x">>, <<"x", "=", "1">>}

\* lines with no '='
BareLines == {<<>>, <<"A">>}

LineSet == {k \o <<"=">> \o w : k \in LineKeys, w \in LineValues} \cup BareLines

SeqsUpTo(S, n) == UNION {[1..m -> S] : m \in 0..n}

Raws == {join(ls, NL) : ls \in SeqsUpTo(LineSet, MaxLines)}

\* dict items: keys are pairwise different
Environs ==
    {e \in SeqsUpTo(LineKeys \X LineValues, MaxLines) :
        \A i, j \in 1..Len(e) : i # j => e[i][1] # e[j][1]}

(***************************************************************************)
(* load_type_hints_and_defaults                                            *)
(***************************************************************************)
RECURSIVE load_loop(_, _)
load_loop(loaded, fields) ==
    IF Len(fields) = 0 THEN loaded
    ELSE load_loop(SetItem(loaded, lower(fields[1].name), fields[1]), Tail(fields))

load_type_hints_and_defaults(cls) == load_loop(<<>>, cls)

(***************************************************************************)
(* parse_config                                                            *)
(***************************************************************************)
NoErr == [kind |-> "none", name |-> <<>>, value |-> <<>>, cause |-> "none"]

\* "not enough values to unpack" at name, value = line.split('=', 1)
UnpackError == [kind |-> "ValueError", name |-> <<>>, value |-> <<>>, cause |-> "none"]

\* Exception(f"Could not parse {name} from {value}") from e
CouldNotParse(name, value, e) ==
    [kind |-> "Exception", name |-> name, value |-> value, cause |-> e]

\* raw_lines that drops empty segments, as raw.splitlines() would for a
\* trailing newline and a filter on blank lines for the others
raw_lines_skip_blank(text) == SelectSeq(split(text, NL), LAMBDA w : Len(w) > 0)

\* raw_lines that starts from the second line
raw_lines_skip_first(text) == Tail(split(text, NL))

\* lines = raw.split('\n')
raw_lines(text) == split(text, NL)

\* for (name, _, default) in settings.values(): config[name] = default
seed_defaults(stg) ==
    [n \in {stg[k].name : k \in DOMAIN stg} |->
        stg[CHOOSE k \in DOMAIN stg : stg[k].name = n].default]

\* process_line whose fallback to the default suppresses the exception
process_line_fallback(cfg, line, stg) ==
    LET parts == split1(line, "=")
    IN  IF Len(parts) # 2 THEN [config |-> cfg, err |-> UnpackError]
        ELSE LET name == parts[1]
                 value == parts[2]
             IN  IF lower(name) \notin DOMAIN stg
                 THEN [config |-> cfg, err |-> NoErr]
                 ELSE LET actual == stg[lower(name)]
                          x == cast(value, actual.hint)
                      IN  IF IsRaise(x)
                          THEN IF actual.default # NoneV
                               THEN [config |-> SetItem(cfg, actual.name, actual.default),
                                     err |-> NoErr]
                               ELSE [config |-> cfg,
                                     err |-> CouldNotParse(name, value, x.v)]
                          ELSE [config |-> SetItem(cfg, actual.name, x),
                                err |-> NoErr]

\* process_line that goes on to the next line when the cast raises
process_line_skip_uncastable(cfg, line, stg) ==
    LET parts == split1(line, "=")
    IN  IF Len(parts) # 2 THEN [config |-> cfg, err |-> UnpackError]
        ELSE LET name == parts[1]
                 value == parts[2]
             IN  IF lower(name) \notin DOMAIN stg
                 THEN [config |-> cfg, err |-> NoErr]
                 ELSE LET actual == stg[lower(name)]
                          x == cast(value, actual.hint)
                      IN  IF IsRaise(x)
                          THEN [config |-> cfg, err |-> NoErr]
                          ELSE [config |-> SetItem(cfg, actual.name, x),
                                err |-> NoErr]

\* process_line that skips a line with no '='
process_line_skip_malformed(cfg, line, stg) ==
    LET parts == split1(line, "=")
    IN  IF Len(parts) # 2 THEN [config |-> cfg, err |-> NoErr]
        ELSE LET name == parts[1]
                 value == parts[2]
             IN  IF lower(name) \notin DOMAIN stg
                 THEN [config |-> cfg, err |-> NoErr]
                 ELSE LET actual == stg[lower(name)]
                          x == cast(value, actual.hint)
                      IN  IF IsRaise(x)
                          THEN [config |-> IF actual.default # NoneV
                                           THEN SetItem(cfg, actual.name, actual.default)
                                           ELSE cfg,
                                err |-> CouldNotParse(name, value, x.v)]
                          ELSE [config |-> SetItem(cfg, actual.name, x),
                                err |-> NoErr]

\* process_line that looks the key up with settings[name.lower()]
process_line_unknown_raises(cfg, line, stg) ==
    LET parts == split1(line, "=")
    IN  IF Len(parts) # 2 THEN [config |-> cfg, err |-> UnpackError]
        ELSE LET name == parts[1]
                 value == parts[2]
             IN  IF lower(name) \notin DOMAIN stg
                 THEN [config |-> cfg, err |-> [kind |-> "KeyError", name |-> <<>>, value |-> <<>>, cause |-> "none"]]
                 ELSE LET actual == stg[lower(name)]
                          x == cast(value, actual.hint)
                      IN  IF IsRaise(x)
                          THEN [config |-> IF actual.default # NoneV
                                           THEN SetItem(cfg, actual.name, actual.default)
                                           ELSE cfg,
                                err |-> CouldNotParse(name, value, x.v)]
                          ELSE [config |-> SetItem(cfg, actual.name, x),
                                err |-> NoErr]

\* The body of the loop over lines, from the mapping cfg: the mapping after
\* it and the exception that leaves it (NoErr when the loop goes on).
process_line(cfg, line, stg) ==
    LET parts == split1(line, "=")
    IN  IF Len(parts) # 2 THEN [config |-> cfg, err |-> UnpackError]
        ELSE LET name == parts[1]
                 value == parts[2]
             IN  IF lower(name) \notin DOMAIN stg
                 THEN [config |-> cfg, err |-> NoErr]
                 ELSE LET actual == stg[lower(name)]
                          x == cast(value, actual.hint)
                      IN  IF IsRaise(x)
                          THEN [config |-> IF actual.default # NoneV
                                           THEN SetItem(cfg, actual.name, actual.default)
                                           ELSE cfg,
                                err |-> CouldNotParse(name, value, x.v)]
                          ELSE [config |-> SetItem(cfg, actual.name, x),
                                err |-> NoErr]

\* How the loop body treats a line.
Malformed(line) == Len(split1(line, "=")) # 2

LineName(line) == split1(line, "=")[1]

LineValue(line) == split1(line, "=")[2]

Unknown(line, stg) == ~Malformed(line) /\ lower(LineName(line)) \notin DOMAIN stg

CastFails(line, stg) ==
    /\ ~Malformed(line)
    /\ lower(LineName(line)) \in DOMAIN stg
    /\ IsRaise(cast(LineValue(line), stg[lower(LineName(line))].hint))

CastSucceeds(line, stg) ==
    /\ ~Malformed(line)
    /\ lower(LineName(line)) \in DOMAIN stg
    /\ ~IsRaise(cast(LineValue(line), stg[lower(LineName(line))].hint))

\* parse_config as a whole, from its lines: the final mapping and exception.
RECURSIVE parse_loop(_, _, _)
parse_loop(cfg, ls, stg) ==
    IF Len(ls) = 0 THEN [config |-> cfg, err |-> NoErr]
    ELSE LET r == process_line(cfg, ls[1], stg)
         IN  IF r.err # NoErr THEN r ELSE parse_loop(r.config, Tail(ls), stg)

parse_config(text, stg) == parse_loop(seed_defaults(stg), raw_lines(text), stg)

\* bind_to as a whole: whether an instance is returned, and its attributes.
bind_to_result(cls, text) ==
    LET r == parse_config(text, load_type_hints_and_defaults(cls))
    IN  [returned |-> r.err = NoErr,
         instance |-> IF r.err = NoErr THEN r.config ELSE <<>>,
         err |-> r.err]

(***************************************************************************)
(* The bind call, step by step.                                            *)
(***************************************************************************)
Init ==
    /\ pc = "idle"
    /\ entry = "none"
    /\ environ = <<>>
    /\ c = <<>>
    /\ raw = <<>>
    /\ settings = <<>>
    /\ config = <<>>
    /\ lines = <<>>
    /\ idx = 0
    /\ err = NoErr
    /\ created = FALSE
    /\ instance = <<>>
    /\ returned = FALSE
    /\ segs = <<>>
    /\ as_ = StrT
    /\ out = NoneV
    /\ cpc = "off"

\* bind_to(c, raw)
bind_to ==
    /\ pc = "idle"
    /\ \E cls \in Classes, text \in Raws :
        /\ c' = cls
        /\ raw' = text
    /\ entry' = "bind_to"
    /\ pc' = "hints"
    /\ UNCHANGED <<environ, settings, config, lines, idx, err, created,
                   instance, returned, castvars>>

\* raw = '\n'.join([f"{k}={v}" for k, v in environ.items()])
environ_raw(env) == join([i \in 1..Len(env) |-> env[i][1] \o <<"=">> \o env[i][2]], NL)

\* bind_environ_to(c, environ)
bind_environ_to ==
    /\ pc = "idle"
    /\ \E cls \in Classes, env \in Environs :
        /\ c' = cls
        /\ environ' = env
        /\ raw' = environ_raw(env)
    /\ entry' = "bind_environ_to"
    /\ pc' = "hints"
    /\ UNCHANGED <<settings, config, lines, idx, err, created, instance,
                   returned, castvars>>

\* settings = load_type_hints_and_defaults(c)
LoadTypeHints ==
    /\ pc = "hints"
    /\ settings' = load_type_hints_and_defaults(c)
    /\ pc' = "seed"
    /\ UNCHANGED <<entry, environ, c, raw, config, lines, idx, err, created,
                   instance, returned, castvars>>

\* parse_config up to its loop over lines
SeedDefaults ==
    /\ pc = "seed"
    /\ lines' = raw_lines(raw)
    /\ config' = seed_defaults(settings)
    /\ idx' = 1
    /\ pc' = "loop"
    /\ UNCHANGED <<entry, environ, c, raw, settings, err, created, instance,
                   returned, castvars>>

\* One iteration of the loop over lines.
Iterate ==
    LET r == process_line(config, lines[idx], settings)
    IN  /\ config' = r.config
        /\ err' = r.err
        /\ idx' = IF r.err = NoErr THEN idx + 1 ELSE idx
        /\ pc' = IF r.err = NoErr THEN "loop" ELSE "raised"
        /\ UNCHANGED <<entry, environ, c, raw, settings, lines, created,
                       instance, returned, castvars>>

InLoop == pc = "loop" /\ idx <= Len(lines)

LineMalformed == InLoop /\ Malformed(lines[idx]) /\ Iterate

LineUnknown == InLoop /\ Unknown(lines[idx], settings) /\ Iterate

LineCast == InLoop /\ CastSucceeds(lines[idx], settings) /\ Iterate

LineCastError == InLoop /\ CastFails(lines[idx], settings) /\ Iterate

\* bind_to_config: config = c()
Instantiate ==
    /\ pc = "loop"
    /\ idx > Len(lines)
    /\ created' = TRUE
    /\ instance' = <<>>
    /\ pc' = "bind"
    /\ UNCHANGED <<entry, environ, c, raw, settings, config, lines, idx, err,
                   returned, castvars>>

\* for name, value in loaded.items(): setattr(config, name, value)
bind_to_config(loaded) == loaded

\* bind_to_config: the setattr loop and the return to bind_to's caller
SetAttrsAndReturn ==
    /\ pc = "bind"
    /\ instance' = bind_to_config(config)
    /\ returned' = TRUE
    /\ pc' = "done"
    /\ UNCHANGED <<entry, environ, c, raw, settings, config, lines, idx, err,
                   created, castvars>>

Next ==
    \/ bind_to
    \/ bind_environ_to
    \/ LoadTypeHints
    \/ SeedDefaults
    \/ LineMalformed
    \/ LineUnknown
    \/ LineCast
    \/ LineCastError
    \/ Instantiate
    \/ SetAttrsAndReturn

Spec == Init /\ [][Next]_vars

(***************************************************************************)
(* A caster run: ConfigBinder().cast(','.join(segs), as_).                 *)
(***************************************************************************)
\* comma-free strings
SegTexts ==
    {<<>>, <<"1">>, <<"0", "1">>, <<"x">>, <<"1", "=", "1">>,
     <<"0", "1", "=", "x">>, <<"1", "=">>, <<"x", "=", "1", "=", "1">>}

CastTypes ==
    {StrT, IntT, FloatT, BoolT, ListT, ListOf(StrT), ListOf(IntT),
     ListOf(ListOf(IntT)), SetT, SetOf(IntT), SetOf(ListT), DictT,
     DictOf(StrT, StrT), DictOf(IntT, StrT), DictOf(StrT, IntT),
     DictOf(SetT, StrT), OptionalOf(IntT)}

cast_input(parts) == join(parts, ",")

InitCast ==
    /\ pc = "idle"
    /\ entry = "none"
    /\ environ = <<>>
    /\ c = <<>>
    /\ raw = <<>>
    /\ settings = <<>>
    /\ config = <<>>
    /\ lines = <<>>
    /\ idx = 0
    /\ err = NoErr
    /\ created = FALSE
    /\ instance = <<>>
    /\ returned = FALSE
    /\ segs \in SeqsUpTo(SegTexts, MaxSegs)
    /\ as_ \in CastTypes
    /\ out = NoneV
    /\ cpc = "ready"

Cast ==
    /\ cpc = "ready"
    /\ out' = cast(cast_input(segs), as_)
    /\ cpc' = "cast"
    /\ UNCHANGED <<bindvars, segs, as_>>

NextCast == Cast

SpecCast == InitCast /\ [][NextCast]_vars

(***************************************************************************)
(* Properties of the caster.                                               *)
(***************************************************************************)
\* The list of str values of the segments.
StrList(parts) == ListV([i \in 1..Len(parts) |-> StrV(parts[i])])

CastToStrList == cpc = "cast" /\ as_ \in {ListT, ListOf(StrT)}

\* C8 as stated: for every list of comma-free strings, joining it with ','
\* and casting the result to a sequence of str yields the original list.
C8_RoundTripEveryList == CastToStrList => out = StrList(segs)

\* C8, amended: for every non-empty list of comma-free strings, joining it
\* with ',' and casting the result to a sequence of str yields the original
\* list: same order, same length, duplicates and empty strings kept.
C8_RoundTripNonEmpty == CastToStrList /\ Len(segs) >= 1 => out = StrList(segs)

\* A cast to a list of a joined list holding a duplicate and an empty string.
C8_Witness ==
    /\ CastToStrList
    /\ Len(segs) = 2
    /\ segs[1] = segs[2]
    /\ segs[1] = <<>>
    /\ out = ListV(<<StrV(<<>>), StrV(<<>>)>>)

\* The pairs, key types and value types of a cast to a mapping.
DictPairs == split(cast_input(segs), ",")

DictKT == IF Len(as_.args) >= 1 THEN as_.args[1] ELSE StrT

DictVT == IF Len(as_.args) >= 2 THEN as_.args[2] ELSE StrT

PairKeyText(i) == split(DictPairs[i], "=")[1]

PairKey(i) == cast(split(DictPairs[i], "=")[1], DictKT)

PairValue(i) == cast(split(DictPairs[i], "=")[2], DictVT)

\* exactly one '=', and the key and the value cast, the key to a hashable
PairOk(i) ==
    /\ Len(split(DictPairs[i], "=")) = 2
    /\ ~IsRaise(PairValue(i))
    /\ ~IsRaise(PairKey(i))
    /\ Hashable(PairKey(i))

CastToDict == cpc = "cast" /\ as_.origin = "Dict"

\* C9 as stated: the mapping maps each key to the cast value of the last
\* pair carrying that key text.
C9_LastPairOfKeyText ==
    CastToDict /\ ~IsRaise(out) =>
        \A i \in 1..Len(DictPairs) :
            (\A j \in (i + 1)..Len(DictPairs) : PairKeyText(j) # PairKeyText(i))
                => out.v[PairKey(i)] = PairValue(i)

\* C9, amended: casting a string to a mapping splits it on ',' into pairs
\* and each pair on '=' into a key and a value and casts them with the key
\* and value types; when every pair has exactly one '=' and casts, the
\* result has exactly the cast keys and maps each to the cast value of the
\* last pair whose key casts to it (for str keys: the last pair carrying
\* that key text), and otherwise the cast raises; "1=1,01=x" cast to a
\* mapping of str to str is {"1": "1", "01": "x"}.
C9_LastPairOfCastKey ==
    CastToDict =>
        /\ IF \A i \in 1..Len(DictPairs) : PairOk(i)
           THEN /\ out.t = "dict"
                /\ DOMAIN out.v = {PairKey(i) : i \in 1..Len(DictPairs)}
                /\ \A i \in 1..Len(DictPairs) :
                     (\A j \in (i + 1)..Len(DictPairs) : PairKey(j) # PairKey(i))
                        => out.v[PairKey(i)] = PairValue(i)
           ELSE IsRaise(out)
        /\ (segs = <<(<<"1", "=", "1">>), (<<"0", "1", "=", "x">>)>>
              /\ as_ = DictOf(StrT, StrT))
            => out = DictV((StrV(<<"1">>) :> StrV(<<"1">>))
                           @@ (StrV(<<"0", "1">>) :> StrV(<<"x">>)))

\* A cast to a mapping in which a later pair overwrote an earlier pair's key.
C9_Witness ==
    /\ CastToDict
    /\ Len(DictPairs) = 2
    /\ PairOk(1) /\ PairOk(2)
    /\ PairKey(1) = PairKey(2)
    /\ PairValue(1) # PairValue(2)
    /\ out.v[PairKey(1)] = PairValue(2)

(***************************************************************************)
(* Properties of the bind call.                                            *)
(***************************************************************************)
\* parse_config has reached its loop over lines (settings and lines are set)
Parsing == pc \in {"loop", "raised", "bind", "done"}

Bad(line) == Malformed(line) \/ CastFails(line, settings)

\* The field descriptor a line's key resolves to.
Actual(line) == settings[lower(LineName(line))]

\* C1: whenever the key of the line being processed matches a declared
\* field and casting its value to the field's type raises, the call fails
\* with an error carrying that line's key and raw value, whether or not the
\* field declares a default, and nothing is instantiated or returned then
\* or afterwards.
C1_CastFailureFailsCall ==
    [][ /\ (InLoop /\ CastFails(lines[idx], settings)) =>
             /\ pc' = "raised"
             /\ err'.kind = "Exception"
             /\ err'.name = LineName(lines[idx])
             /\ err'.value = LineValue(lines[idx])
             /\ idx' = idx
        /\ (pc' = "raised" => ~created' /\ ~returned' /\ instance' = <<>>)
        /\ pc # "raised"
      ]_vars

\* A failed cast on a second line of a field with a default, after the first
\* line had set the field: the mapping holds the default, the call has failed.
C1_Witness ==
    /\ pc = "raised"
    /\ err.kind = "Exception"
    /\ Len(lines) = 2
    /\ idx = 2
    /\ CastSucceeds(lines[1], settings)
    /\ Actual(lines[1]) = Actual(lines[2])
    /\ Actual(lines[2]).default # NoneV
    /\ cast(LineValue(lines[1]), Actual(lines[1]).hint) # Actual(lines[2]).default
    /\ config[Actual(lines[2]).name] = Actual(lines[2]).default
    /\ err.name = LineName(lines[2])
    /\ err.value = LineValue(lines[2])
    /\ ~returned

\* C2: the class is instantiated only after every line was processed
\* without error, an instance is returned only after that, and once a line
\* fails no later line is processed and nothing is instantiated or returned.
C2_AllOrNothing ==
    /\ created =>
         /\ pc \in {"bind", "done"}
         /\ idx = Len(lines) + 1
         /\ err = NoErr
         /\ \A i \in 1..Len(lines) : ~Bad(lines[i])
    /\ returned => created /\ pc = "done" /\ instance = config
    /\ Parsing =>
         \A i \in 1..Len(lines) :
            Bad(lines[i]) => idx <= i /\ ~created /\ ~returned /\ instance = <<>>
    /\ pc = "raised" => idx \in 1..Len(lines) /\ Bad(lines[idx]) /\ err # NoErr
    /\ (pc = "loop" /\ idx > 1) => ~Bad(lines[idx - 1])

\* A call that failed on its first line while a castable line was left.
C2_Witness ==
    /\ pc = "raised"
    /\ idx = 1
    /\ Len(lines) = 2
    /\ CastSucceeds(lines[2], settings)
    /\ config = seed_defaults(settings)
    /\ ~created
    /\ ~returned

\* C3: a line with no '=' makes the call fail, wherever it stands and
\* whatever the other lines are: the loop never goes past it, nothing is
\* instantiated or returned, and when the loop stops at it the error is the
\* unpacking error of the split.
C3_MalformedLineFails ==
    Parsing =>
        \A i \in 1..Len(lines) :
            find(lines[i], "=") = 0 =>
                /\ idx <= i
                /\ pc \in {"loop", "raised"}
                /\ ~created /\ ~returned
                /\ (pc = "raised" /\ idx = i) => err = UnpackError

\* A call that failed on a last line with no '=' after a castable line.
C3_Witness ==
    /\ pc = "raised"
    /\ err = UnpackError
    /\ Len(lines) = 2
    /\ idx = 2
    /\ CastSucceeds(lines[1], settings)
    /\ find(lines[2], "=") = 0
    /\ lines[2] # <<>>

AllUnknown(ls, stg) == Len(ls) >= 1 /\ \A i \in 1..Len(ls) : Unknown(ls[i], stg)

\* C4: a well-formed line whose lowercased key is no declared field's
\* lookup key is ignored: the loop goes on to the next line with the
\* mapping unchanged and no error, whatever the value; a text of such lines
\* only returns an instance holding the seeded defaults.
C4_UnknownKeyIgnored ==
    [][ /\ (InLoop /\ Unknown(lines[idx], settings)) =>
             /\ config' = config
             /\ err' = NoErr
             /\ pc' = "loop"
             /\ idx' = idx + 1
        /\ (pc' \in {"done", "raised"} /\ AllUnknown(lines', settings')) =>
             /\ pc' = "done"
             /\ returned'
             /\ instance' = seed_defaults(settings')
      ]_vars

\* A returned instance of a class with fields, bound from unknown-key lines
\* only, one of them with a value no field type would accept.
C4_Witness ==
    /\ pc = "done"
    /\ returned
    /\ Len(c) > 0
    /\ AllUnknown(lines, settings)
    /\ \E i \in 1..Len(lines) : LineValue(lines[i]) = <<"x">>
    /\ instance = seed_defaults(settings)

\* C5: the mapping has an entry for every declared field before any line is
\* processed, and after a successful bind every declared field has been
\* assigned, fields whose names differ only in letter case included.
C5_EveryFieldHasEntry ==
    /\ (pc = "loop" /\ idx = 1) =>
          \A i \in 1..Len(c) :
             /\ c[i].name \in DOMAIN config
             /\ config[c[i].name] = c[i].default
    /\ pc = "done" => \A i \in 1..Len(c) : c[i].name \in DOMAIN instance

\* The lines whose key equals the name case-insensitively.
Matching(name) ==
    {j \in 1..Len(lines) :
        ~Malformed(lines[j]) /\ lower(LineName(lines[j])) = lower(name)}

Max(S) == CHOOSE m \in S : \A n \in S : n <= m

\* C6: after a successful bind each declared field, under its declared
\* name, holds the cast of the value of the last line whose key equals the
\* name case-insensitively, or the field's default if no line matches.
C6_FieldHoldsLastMatchingLine ==
    pc = "done" =>
        \A i \in 1..Len(c) :
            /\ c[i].name \in DOMAIN instance
            /\ instance[c[i].name] =
                 IF Matching(c[i].name) = {} THEN c[i].default
                 ELSE cast(LineValue(lines[Max(Matching(c[i].name))]), c[i].hint)

\* The text's lines in the order perm.
Permuted(ls, perm) == join([i \in 1..Len(ls) |-> ls[perm[i]]], NL)

\* Every permutation of the text's lines has the outcome of this call.
OrderIrrelevant ==
    LET ls == split(raw, NL)
    IN  \A perm \in Permutations(1..Len(ls)) :
            LET r == bind_to_result(c, Permuted(ls, perm))
            IN  r.returned = returned /\ r.instance = instance

Finished == pc \in {"done", "raised"}

\* the key of a line: what precedes its first '='
KeyStrings == LET ls == split(raw, NL) IN [i \in 1..Len(ls) |-> split1(ls[i], "=")[1]]

\* C7 as stated: when the lines have pairwise distinct key strings, every
\* permutation of the lines yields the same record.
C7_DistinctKeyStrings ==
    (Finished /\ \A i, j \in 1..Len(KeyStrings) :
                    i # j => KeyStrings[i] # KeyStrings[j])
        => OrderIrrelevant

\* C7, amended: when the lines have keys that are pairwise distinct
\* case-insensitively, every permutation of the lines has the same outcome:
\* all fail, or all yield a record with the same field values.
C7_DistinctLowerKeys ==
    (Finished /\ \A i, j \in 1..Len(KeyStrings) :
                    i # j => lower(KeyStrings[i]) # lower(KeyStrings[j]))
        => OrderIrrelevant

\* A returned instance bound from two lines that set two different fields.
C7_Witness ==
    /\ pc = "done"
    /\ Len(lines) = 2
    /\ CastSucceeds(lines[1], settings)
    /\ CastSucceeds(lines[2], settings)
    /\ Actual(lines[1]).name # Actual(lines[2]).name
    /\ instance[Actual(lines[1]).name] # Actual(lines[1]).default
    /\ instance[Actual(lines[2]).name] # Actual(lines[2]).default

\* C10: every '\n'-separated segment of the raw text is a line, the empty
\* ones included, so an empty segment makes the call fail like any line with
\* no '=': the empty text, a text with a trailing newline or a blank line,
\* and the text of an empty environment mapping never return an instance.
C10_EmptySegmentFails ==
    /\ (entry = "bind_environ_to" /\ Len(environ) = 0) => raw = <<>>
    /\ Parsing =>
         /\ Len(lines) = 1 + Cardinality({i \in 1..Len(raw) : raw[i] = NL})
         /\ raw = <<>> => lines = << <<>> >>
         /\ (raw # <<>> /\ raw[Len(raw)] = NL) => lines[Len(lines)] = <<>>
         /\ \A i \in 1..Len(lines) :
              lines[i] = <<>> =>
                 /\ idx <= i
                 /\ pc \in {"loop", "raised"}
                 /\ ~created /\ ~returned
                 /\ (pc = "raised" /\ idx = i) => err = UnpackError

\* bind_environ_to on an empty mapping has failed with the unpacking error.
C10_Witness ==
    /\ entry = "bind_environ_to"
    /\ Len(environ) = 0
    /\ Len(c) > 0
    /\ pc = "raised"
    /\ err = UnpackError
    /\ lines = << <<>> >>

====
